---- MODULE Spec2Model ----
(***************************************************************************)
(* Model of iperf_automation.py: MobileIperfTester, the measurement-cycle  *)
(* loop around iperf3 (download, upload), ping and gpsd, with its CSV log, *)
(* its detailed log and its SIGINT handler.                                *)
(*                                                                         *)
(* Time is counted in whole seconds. The external programs are inputs:     *)
(* each invocation draws one completed process (or a TimeoutExpired) from  *)
(* a small set of concrete results.                                        *)
(***************************************************************************)
EXTENDS Integers, Sequences, FiniteSets, TLC

\* ---------------------------------------------------------------- bounds
MaxCycles == 1
MaxSecond == 1
MaxRunTests == 2

\* ------------------------------------------------- configuration (defaults)
test_duration == 5
test_interval == 10
IperfTimeoutMargin == 30
PingTimeout == 10
FirstPause == 2
SecondPause == 1
BitsPerMbit == 1000000
BytesPerGB == 1000000000

\* ------------------------------------------------------------ value shapes
\* A CSV cell: a number, or text ('' is the empty cell).
Num(n) == [k |-> "num", s |-> "", n |-> n]
Text(s) == [k |-> "text", s |-> s, n |-> 0]
Empty == Text("")

\* A JSON scalar as iperf3 prints it: a number, or something that is not one.
JNum(x) == [num |-> TRUE, v |-> x]
JStr == [num |-> FALSE, v |-> 0]

\* A line of the detailed log.
Line(msg, who, n) == [msg |-> msg, who |-> who, n |-> n]

\* The value of a local that is not bound, None, and a result dict.
Unbound == [tag |-> "unbound", sent_mbps |-> 0, received_mbps |-> 0,
            sent_bytes |-> JNum(0), received_bytes |-> JNum(0),
            retransmits |-> JNum(0), intervals |-> 0]
None == [Unbound EXCEPT !.tag = "None"]

NoRtt == [tag |-> "None", v |-> 0]
UnboundRtt == [tag |-> "unbound", v |-> 0]
Rtt(x) == [tag |-> "float", v |-> x]

NoFix == [fix |-> FALSE, lat |-> 0, lon |-> 0, alt |-> 0]

\* ------------------------------------------------------- iperf3, as an input
NoDoc == [json |-> "invalid", sent_bps |-> JNum(0), sent_bytes |-> JNum(0),
          sent_retransmits |-> JNum(0), received_bps |-> JNum(0),
          received_bytes |-> JNum(0), intervals |-> 0]
GoodDoc == [json |-> "object", sent_bps |-> JNum(100000000),
            sent_bytes |-> JNum(1000000000), sent_retransmits |-> JNum(0),
            received_bps |-> JNum(90000000), received_bytes |-> JNum(2000000000),
            intervals |-> test_duration]

IperfExit1 == [raise |-> "none", returncode |-> 1, stdout |-> NoDoc, took |-> 0]
IperfTimeout == [raise |-> "TimeoutExpired", returncode |-> 0, stdout |-> NoDoc,
                 took |-> test_duration + IperfTimeoutMargin]
IperfNotJson == [raise |-> "none", returncode |-> 0, stdout |-> NoDoc, took |-> 1]
IperfArray == [raise |-> "none", returncode |-> 0,
               stdout |-> [NoDoc EXCEPT !.json = "array"], took |-> 1]
IperfGood == [raise |-> "none", returncode |-> 0, stdout |-> GoodDoc,
              took |-> test_duration]
IperfBadBytes == [raise |-> "none", returncode |-> 0,
                  stdout |-> [GoodDoc EXCEPT !.sent_bytes = JStr,
                                             !.received_bytes = JStr],
                  took |-> test_duration]

IperfRuns == {IperfExit1, IperfTimeout, IperfNotJson, IperfArray, IperfGood,
              IperfBadBytes}

test_type(reverse) == IF reverse THEN "download" ELSE "upload"

\* The statements of run_iperf3_test after json.loads that raise inside its try:
\* data.get on a document that is no object, a division of a non-number.
IperfRaises(doc) ==
    \/ doc.json # "object"
    \/ ~doc.sent_bps.num
    \/ ~doc.received_bps.num

IperfDict(doc) ==
    [tag |-> "dict",
     sent_mbps |-> doc.sent_bps.v \div BitsPerMbit,
     received_mbps |-> doc.received_bps.v \div BitsPerMbit,
     sent_bytes |-> doc.sent_bytes,
     received_bytes |-> doc.received_bytes,
     retransmits |-> doc.sent_retransmits,
     intervals |-> doc.intervals]

\* run_iperf3_test: the value returned and the lines it adds to the detailed log.
run_iperf3_test(p, reverse) ==
    LET tt == test_type(reverse)
        started == <<Line("Starting test - Command", tt, 0)>>
        output == started \o <<Line("TEST JSON OUTPUT:", tt, 0),
                               Line("stdout", tt, 0),
                               Line("----------------------------------------", "", 0)>>
    IN  IF p.raise = "TimeoutExpired"
        THEN [ret |-> None,
              log |-> started \o <<Line("iperf3 test timed out", tt, 0)>>]
        ELSE IF p.returncode # 0
        THEN [ret |-> None, log |-> started \o <<Line("iperf3 error", tt, 0)>>]
        ELSE IF p.stdout.json = "invalid"
        THEN [ret |-> None,
              log |-> output \o <<Line("Failed to parse iperf3 JSON output", tt, 0),
                                  Line("Raw output was", tt, 0)>>]
        ELSE IF IperfRaises(p.stdout)
        THEN [ret |-> None, log |-> output \o <<Line("iperf3 test failed", tt, 0)>>]
        ELSE [ret |-> IperfDict(p.stdout), log |-> output]

\* ---------------------------------------------------------- ping, as an input
\* A line of ping's output: whether it contains 'Average', and what is left of
\* each '='-separated part after strip().replace('ms', ''): a number or not.
OtherLine == [average |-> FALSE, parts |-> <<JStr>>]
AverageLine(x) == [average |-> TRUE, parts |-> <<JStr, JStr, JStr, x>>]

PingExit1 == [raise |-> "none", returncode |-> 1, lines |-> <<OtherLine>>, took |-> 0]
PingTimedOut == [raise |-> "TimeoutExpired", returncode |-> 0, lines |-> <<>>,
                 took |-> PingTimeout]
PingNoAverage == [raise |-> "none", returncode |-> 0,
                  lines |-> <<OtherLine, OtherLine>>, took |-> 2]
PingUnparsable == [raise |-> "none", returncode |-> 0,
                   lines |-> <<OtherLine, AverageLine(JStr)>>, took |-> 2]
PingAverage(x) == [raise |-> "none", returncode |-> 0,
                   lines |-> <<OtherLine, [average |-> TRUE, parts |-> <<JStr>>],
                               AverageLine(JNum(x))>>,
                   took |-> 2]

PingRuns == {PingExit1, PingTimedOut, PingNoAverage, PingUnparsable,
             PingAverage(0), PingAverage(12)}

\* The loop over the lines of ping's output: the first line with 'Average' and a
\* '=' decides; float() of its last part is returned, or raises ValueError.
RECURSIVE FirstAverage(_)
FirstAverage(lines) ==
    IF lines = <<>> THEN [found |-> FALSE, part |-> JStr]
    ELSE IF Head(lines).average /\ Len(Head(lines).parts) > 1
    THEN [found |-> TRUE, part |-> Head(lines).parts[Len(Head(lines).parts)]]
    ELSE FirstAverage(Tail(lines))

run_ping_test(p) ==
    LET started == <<Line("Running ping test", "", 0)>>
        output == started \o <<Line("Ping output", "", 0)>>
        avg == FirstAverage(p.lines)
    IN  IF p.raise = "TimeoutExpired"
        THEN [ret |-> NoRtt, log |-> started \o <<Line("Ping test failed", "", 0)>>]
        ELSE IF p.returncode # 0 \/ ~avg.found
        THEN [ret |-> NoRtt, log |-> output]
        ELSE IF ~avg.part.num
        THEN [ret |-> NoRtt, log |-> output \o <<Line("Ping test failed", "", 0)>>]
        ELSE [ret |-> Rtt(avg.part.v), log |-> output]

\* ---------------------------------------------------------- gpsd, as an input
GpsFix == [raise |-> FALSE, mode |-> 3, lat |-> 0, lon |-> 7, alt |-> 300]
GpsNoFix == [raise |-> FALSE, mode |-> 1, lat |-> 0, lon |-> 0, alt |-> 0]
GpsError == [raise |-> TRUE, mode |-> 0, lat |-> 0, lon |-> 0, alt |-> 0]
GpsReads == {GpsFix, GpsNoFix, GpsError}

get_gps_location(enabled, g) ==
    IF ~enabled THEN NoFix
    ELSE IF ~g.raise /\ g.mode >= 2
    THEN [fix |-> TRUE, lat |-> g.lat, lon |-> g.lon, alt |-> g.alt]
    ELSE NoFix

\* ------------------------------------------------------------------ state
VARIABLES
    pc,               \* where the main thread is
    running,          \* self.running
    test_count,       \* self.test_count
    gps_enabled,      \* self.gps_enabled
    csv,              \* the rows of self.csv_file, the header first
    detailed_log,     \* the lines of self.detailed_log
    clock,            \* time.time(), in seconds
    start_time,       \* start_testing's local
    elapsed,          \* start_testing's local
    sleep_time,       \* start_testing's local
    download_result,  \* run_test_cycle's local
    upload_result,    \* run_test_cycle's local
    rtt,              \* run_test_cycle's local
    location,         \* log_result's lat, lon, alt
    frame,            \* signal_handler's frame: where SIGINT found the main thread
    exit_code,        \* the process's exit status, -1 while it runs
    wall,             \* several runs: the wall clock, in seconds
    dir,              \* several runs: the output directory, file name -> rows
    csv_file,         \* several runs: each run's self.csv_file
    run_tests         \* several runs: each run's self.test_count

cycleVars == <<download_result, upload_result, rtt, location>>
loopVars == <<start_time, elapsed, sleep_time>>
runsVars == <<wall, dir, csv_file, run_tests>>
vars == <<pc, running, test_count, gps_enabled, csv, detailed_log, clock,
          start_time, elapsed, sleep_time, download_result, upload_result, rtt,
          location, frame, exit_code, wall, dir, csv_file, run_tests>>

Columns == {"timestamp", "test_number", "latitude", "longitude", "altitude",
            "download_mbps", "upload_mbps", "download_transfer_gb",
            "upload_transfer_gb", "download_retransmits", "upload_retransmits",
            "rtt_ms", "test_duration", "download_intervals", "upload_intervals"}

\* setup_csv_file's header row.
Header == [c \in Columns |-> Text(c)]

\* setup_log_file's lines.
LogHeader == <<Line("Mobile RF Testing - Detailed Log", "", 0), Line("Started", "", 0),
               Line("Server", "", 0),
               Line("============================================================", "", 0)>>

Runs == {1, 2}
NoFile == -1

Terminal == {"exited", "crashed", "returned"}
InCycle == {"dl", "pause1", "ul", "pause2", "ping", "gps", "write", "summary"}

\* ------------------------------------------------------------- log_result
\* Python's truth value of rtt: None and 0.0 are false.
Truthy(r) == r.tag = "float" /\ r.v # 0

JCell(j) == IF j.num THEN Num(j.v) ELSE Text("str")

\* The divisions of the row that raise TypeError: a byte count that is no number.
RowRaises(d, u) ==
    \/ d.tag = "dict" /\ ~d.received_bytes.num
    \/ u.tag = "dict" /\ ~u.sent_bytes.num

\* Row with the upload cells tested against the download result (a copied
\* condition): what C2 must tell from Row.
RowCoupled(ts, count, loc, d, u, r) ==
    [timestamp |-> Num(ts),
     test_number |-> Num(count),
     latitude |-> IF loc.fix THEN Num(loc.lat) ELSE Empty,
     longitude |-> IF loc.fix THEN Num(loc.lon) ELSE Empty,
     altitude |-> IF loc.fix THEN Num(loc.alt) ELSE Empty,
     download_mbps |-> IF d.tag = "dict" THEN Num(d.received_mbps) ELSE Empty,
     upload_mbps |-> IF d.tag = "dict" THEN Num(u.sent_mbps) ELSE Empty,
     download_transfer_gb |->
         IF d.tag = "dict" THEN Num(d.received_bytes.v \div BytesPerGB) ELSE Empty,
     upload_transfer_gb |->
         IF d.tag = "dict" THEN Num(u.sent_bytes.v \div BytesPerGB) ELSE Empty,
     download_retransmits |-> IF d.tag = "dict" THEN JCell(d.retransmits) ELSE Empty,
     upload_retransmits |-> IF d.tag = "dict" THEN JCell(u.retransmits) ELSE Empty,
     rtt_ms |-> IF Truthy(r) THEN Num(r.v) ELSE Empty,
     test_duration |-> Num(test_duration),
     download_intervals |-> IF d.tag = "dict" THEN Num(d.intervals) ELSE Empty,
     upload_intervals |-> IF d.tag = "dict" THEN Num(u.intervals) ELSE Empty]

Row(ts, count, loc, d, u, r) ==
    [timestamp |-> Num(ts),
     test_number |-> Num(count),
     latitude |-> IF loc.fix THEN Num(loc.lat) ELSE Empty,
     longitude |-> IF loc.fix THEN Num(loc.lon) ELSE Empty,
     altitude |-> IF loc.fix THEN Num(loc.alt) ELSE Empty,
     download_mbps |-> IF d.tag = "dict" THEN Num(d.received_mbps) ELSE Empty,
     upload_mbps |-> IF u.tag = "dict" THEN Num(u.sent_mbps) ELSE Empty,
     download_transfer_gb |->
         IF d.tag = "dict" THEN Num(d.received_bytes.v \div BytesPerGB) ELSE Empty,
     upload_transfer_gb |->
         IF u.tag = "dict" THEN Num(u.sent_bytes.v \div BytesPerGB) ELSE Empty,
     download_retransmits |-> IF d.tag = "dict" THEN JCell(d.retransmits) ELSE Empty,
     upload_retransmits |-> IF u.tag = "dict" THEN JCell(u.retransmits) ELSE Empty,
     rtt_ms |-> IF Truthy(r) THEN Num(r.v) ELSE Empty,
     test_duration |-> Num(test_duration),
     download_intervals |-> IF d.tag = "dict" THEN Num(d.intervals) ELSE Empty,
     upload_intervals |-> IF u.tag = "dict" THEN Num(u.intervals) ELSE Empty]

RttLine(r) == IF Truthy(r) THEN Line("RTT ms", "", r.v) ELSE Line("RTT: FAILED", "", 0)

Summary(count, d, u, r) ==
    <<Line("TEST SUMMARY:", "", count),
      IF d.tag = "dict" THEN Line("Download Mbps", "", d.received_mbps)
                        ELSE Line("Download: FAILED", "", 0),
      IF u.tag = "dict" THEN Line("Upload Mbps", "", u.sent_mbps)
                        ELSE Line("Upload: FAILED", "", 0),
      RttLine(r),
      Line("==================================================", "", 0)>>

StoppedLine(count) == Line("Testing stopped. Total tests", "", count)

Max(a, b) == IF a >= b THEN a ELSE b
\* The wait of an additive cadence, the whole interval after every cycle: what C9
\* must tell from SleepTime.
SleepTimeAdditive(e) == test_interval

SleepTime(e) == Max(0, test_interval - e)

\* ------------------------------------------------------------------- Init
\* The state __init__ leaves: both files created, the handler installed.
InitRun ==
    /\ pc = "start"
    /\ running = TRUE
    /\ test_count = 0
    /\ gps_enabled \in BOOLEAN
    /\ csv = <<Header>>
    /\ detailed_log = LogHeader
    /\ clock = 0
    /\ start_time = 0
    /\ elapsed = 0
    /\ sleep_time = 0
    /\ download_result = Unbound
    /\ upload_result = Unbound
    /\ rtt = UnboundRtt
    /\ location = NoFix
    /\ frame = "none"
    /\ exit_code = -1

InitNoRuns ==
    /\ wall = 0
    /\ dir = [f \in 0..MaxSecond |-> <<>>]
    /\ csv_file = [r \in Runs |-> NoFile]
    /\ run_tests = [r \in Runs |-> 0]

Init == InitRun /\ InitNoRuns

\* ---------------------------------------------------------- start_testing
StartTesting ==
    /\ pc = "start"
    /\ detailed_log' = Append(detailed_log, Line("Testing started", "", 0))
    /\ pc' = "loop"
    /\ UNCHANGED <<running, test_count, gps_enabled, csv, clock, loopVars, cycleVars,
                   frame, exit_code, runsVars>>

\* while self.running: start_time = time.time(); the loop's end is the return of
\* start_testing and of main.
LoopCheck ==
    /\ pc = "loop"
    /\ IF running
       THEN /\ start_time' = clock
            /\ pc' = "cycle"
            /\ UNCHANGED exit_code
       ELSE /\ pc' = "returned"
            /\ exit_code' = 0
            /\ UNCHANGED start_time
    /\ UNCHANGED <<running, test_count, gps_enabled, csv, detailed_log, clock, elapsed,
                   sleep_time, cycleVars, frame, runsVars>>

\* ---------------------------------------------------------- run_test_cycle
StartCycle ==
    /\ pc = "cycle"
    /\ test_count < MaxCycles
    /\ test_count' = test_count + 1
    /\ detailed_log' = Append(detailed_log, Line("STARTING TEST CYCLE", "", test_count'))
    /\ pc' = "dl"
    /\ UNCHANGED <<running, gps_enabled, csv, clock, loopVars, cycleVars, frame,
                   exit_code, runsVars>>

Download ==
    /\ pc = "dl"
    /\ \E p \in IperfRuns :
         LET r == run_iperf3_test(p, TRUE)
         IN  /\ download_result' = r.ret
             /\ detailed_log' = detailed_log \o r.log
             /\ clock' = clock + p.took
    /\ pc' = "pause1"
    /\ UNCHANGED <<running, test_count, gps_enabled, csv, loopVars, upload_result, rtt,
                   location, frame, exit_code, runsVars>>

\* run_test_cycle without its first pause: what C8's lower bound must tell from
\* Pause1.
Pause1Skipped ==
    /\ pc = "pause1"
    /\ pc' = "ul"
    /\ UNCHANGED <<running, test_count, gps_enabled, csv, detailed_log, clock, loopVars,
                   cycleVars, frame, exit_code, runsVars>>

Pause1 ==
    /\ pc = "pause1"
    /\ clock' = clock + FirstPause
    /\ pc' = "ul"
    /\ UNCHANGED <<running, test_count, gps_enabled, csv, detailed_log, loopVars,
                   cycleVars, frame, exit_code, runsVars>>

Upload ==
    /\ pc = "ul"
    /\ \E p \in IperfRuns :
         LET r == run_iperf3_test(p, FALSE)
         IN  /\ upload_result' = r.ret
             /\ detailed_log' = detailed_log \o r.log
             /\ clock' = clock + p.took
    /\ pc' = "pause2"
    /\ UNCHANGED <<running, test_count, gps_enabled, csv, loopVars, download_result,
                   rtt, location, frame, exit_code, runsVars>>

Pause2 ==
    /\ pc = "pause2"
    /\ clock' = clock + SecondPause
    /\ pc' = "ping"
    /\ UNCHANGED <<running, test_count, gps_enabled, csv, detailed_log, loopVars,
                   cycleVars, frame, exit_code, runsVars>>

Ping ==
    /\ pc = "ping"
    /\ \E p \in PingRuns :
         LET r == run_ping_test(p)
         IN  /\ rtt' = r.ret
             /\ detailed_log' = detailed_log \o r.log
             /\ clock' = clock + p.took
    /\ pc' = "gps"
    /\ UNCHANGED <<running, test_count, gps_enabled, csv, loopVars, download_result,
                   upload_result, location, frame, exit_code, runsVars>>

\* log_result, first part: lat, lon, alt = self.get_gps_location().
ReadGps ==
    /\ pc = "gps"
    /\ \E g \in GpsReads : location' = get_gps_location(gps_enabled, g)
    /\ pc' = "write"
    /\ UNCHANGED <<running, test_count, gps_enabled, csv, detailed_log, clock, loopVars,
                   download_result, upload_result, rtt, frame, exit_code, runsVars>>

\* log_result opening the CSV file with mode 'w': what C7 must tell from WriteRow.
WriteRowTruncating ==
    /\ pc = "write"
    /\ IF RowRaises(download_result, upload_result)
       THEN /\ pc' = "crashed"
            /\ exit_code' = 1
            /\ UNCHANGED csv
       ELSE /\ csv' = <<Row(clock, test_count, location, download_result,
                            upload_result, rtt)>>
            /\ pc' = "summary"
            /\ UNCHANGED exit_code
    /\ UNCHANGED <<running, test_count, gps_enabled, detailed_log, clock, loopVars,
                   cycleVars, frame, runsVars>>

\* log_result, second part: the row is built, which may raise TypeError (nothing
\* up to main catches it: the traceback ends the process with status 1), and
\* then appended to the CSV file.
WriteRow ==
    /\ pc = "write"
    /\ IF RowRaises(download_result, upload_result)
       THEN /\ pc' = "crashed"
            /\ exit_code' = 1
            /\ UNCHANGED csv
       ELSE /\ csv' = Append(csv, Row(clock, test_count, location, download_result,
                                      upload_result, rtt))
            /\ pc' = "summary"
            /\ UNCHANGED exit_code
    /\ UNCHANGED <<running, test_count, gps_enabled, detailed_log, clock, loopVars,
                   cycleVars, frame, runsVars>>

\* log_result, last part: the summary lines; then run_test_cycle returns and
\* start_testing computes the wait.
WriteSummary ==
    /\ pc = "summary"
    /\ detailed_log' = detailed_log \o Summary(test_count, download_result,
                                               upload_result, rtt)
    /\ pc' = "elapsed"
    /\ UNCHANGED <<running, test_count, gps_enabled, csv, clock, loopVars, cycleVars,
                   frame, exit_code, runsVars>>

ComputeSleep ==
    /\ pc = "elapsed"
    /\ elapsed' = clock - start_time
    /\ sleep_time' = SleepTime(elapsed')
    /\ pc' = IF sleep_time' > 0 /\ running THEN "wait" ELSE "loop"
    /\ download_result' = Unbound
    /\ upload_result' = Unbound
    /\ rtt' = UnboundRtt
    /\ location' = NoFix
    /\ UNCHANGED <<running, test_count, gps_enabled, csv, detailed_log, clock,
                   start_time, frame, exit_code, runsVars>>

\* time.sleep(sleep_time) runs to its end.
Wait ==
    /\ pc = "wait"
    /\ clock' = clock + sleep_time
    /\ pc' = "loop"
    /\ UNCHANGED <<running, test_count, gps_enabled, csv, detailed_log, loopVars,
                   cycleVars, frame, exit_code, runsVars>>

\* ------------------------------------------------- signal_handler (SIGINT)
\* stop_testing, then sys.exit(0): SystemExit is raised where the main thread is.
\* No handler of run_iperf3_test, run_ping_test or start_testing catches it; the
\* bare except of get_gps_location does, when the signal lands in its try.
Swallowed(at, enabled) == at = "gps" /\ enabled

\* A handler that stops the loop without sys.exit(0), leaving the main thread
\* where it was: what C4 must tell from signal_handler.
signal_handler_no_exit ==
    /\ pc \notin Terminal
    /\ running' = FALSE
    /\ frame' = pc
    /\ detailed_log' = Append(detailed_log, StoppedLine(test_count))
    /\ UNCHANGED <<pc, exit_code, location, test_count, gps_enabled, csv, clock,
                   loopVars, download_result, upload_result, rtt, runsVars>>

signal_handler ==
    /\ pc \notin Terminal
    /\ running' = FALSE
    /\ frame' = pc
    /\ detailed_log' = Append(detailed_log, StoppedLine(test_count))
    /\ \/ /\ pc' = "exited"
          /\ exit_code' = 0
          /\ UNCHANGED location
       \/ /\ Swallowed(pc, gps_enabled)
          /\ location' = NoFix
          /\ pc' = "write"
          /\ UNCHANGED exit_code
    /\ UNCHANGED <<test_count, gps_enabled, csv, clock, loopVars, download_result,
                   upload_result, rtt, runsVars>>

Next ==
    \/ StartTesting
    \/ LoopCheck
    \/ StartCycle
    \/ Download
    \/ Pause1
    \/ Upload
    \/ Pause2
    \/ Ping
    \/ ReadGps
    \/ WriteRow
    \/ WriteSummary
    \/ ComputeSleep
    \/ Wait
    \/ signal_handler

Spec == Init /\ [][Next]_vars

\* ------------------------------------------------ several runs, one directory
\* What two runs of the program do to the files of one output directory: each
\* __init__ names its CSV file after the wall clock's second and creates it,
\* each cycle appends a row to its run's file.
IsPrefix(a, b) == Len(a) <= Len(b) /\ SubSeq(b, 1, Len(a)) = a

InitRuns == InitRun /\ InitNoRuns

Tick ==
    /\ wall < MaxSecond
    /\ wall' = wall + 1
    /\ UNCHANGED <<dir, csv_file, run_tests>>

\* __init__: timestamp = now.strftime('%Y%m%d_%H%M%S'); setup_csv_file opens the
\* file with mode 'w' and writes the header.
Construct(r) ==
    /\ csv_file[r] = NoFile
    /\ csv_file' = [csv_file EXCEPT ![r] = wall]
    /\ dir' = [dir EXCEPT ![wall] = <<Header>>]
    /\ UNCHANGED <<wall, run_tests>>

\* run_test_cycle of run r, as far as the directory sees it: log_result opens the
\* run's file with mode 'a' and writes one row.
RunCycle(r) ==
    /\ csv_file[r] # NoFile
    /\ run_tests[r] < MaxRunTests
    /\ run_tests' = [run_tests EXCEPT ![r] = @ + 1]
    /\ \E d \in {None, IperfDict(GoodDoc)} :
         dir' = [dir EXCEPT ![csv_file[r]] =
                    Append(@, Row(wall, run_tests'[r], NoFix, d, None, NoRtt))]
    /\ UNCHANGED <<wall, csv_file>>

mainVars == <<pc, running, test_count, gps_enabled, csv, detailed_log, clock,
              start_time, elapsed, sleep_time, download_result, upload_result, rtt,
              location, frame, exit_code>>

NextRuns ==
    \/ Tick /\ UNCHANGED mainVars
    \/ \E r \in Runs : Construct(r) /\ UNCHANGED mainVars
    \/ \E r \in Runs : RunCycle(r) /\ UNCHANGED mainVars

SpecRuns == InitRuns /\ [][NextRuns]_vars

\* ------------------------------------------------------------------ claims
LastRow == csv[Len(csv)]
Rows == Len(csv) - 1
BetweenCycles == pc \in {"loop", "wait"} /\ test_count >= 1

\* C1: every cycle that was started has appended exactly one record, whatever
\* its sub-tests did: with no interrupt, whenever the program is not inside a
\* cycle the number of data rows equals test_count.
C1_OneRecordPerCycle ==
    (frame = "none" /\ pc \notin InCycle) => Rows = test_count

\* C2: the two iperf3 sub-tests fail independently. Each of the failures of
\* run_iperf3_test returns None; the upload test is run whatever the download
\* test returned; and the record of a cycle where one direction returned None
\* and the other a result has that direction's four fields empty and the other
\* direction's four fields filled from the result.
C2_IndependentSubTests ==
    /\ \A p \in {IperfExit1, IperfTimeout, IperfNotJson, IperfArray} :
         \A reverse \in BOOLEAN : run_iperf3_test(p, reverse).ret = None
    /\ pc \in {"pause1", "ul"} => download_result.tag \in {"None", "dict"}
    /\ pc \in {"pause2", "ping", "gps", "write", "summary"} =>
         upload_result.tag \in {"None", "dict"}
    /\ (pc = "summary" /\ download_result.tag = "None" /\ upload_result.tag = "dict") =>
         /\ LastRow.download_mbps = Empty
         /\ LastRow.download_transfer_gb = Empty
         /\ LastRow.download_retransmits = Empty
         /\ LastRow.download_intervals = Empty
         /\ LastRow.upload_mbps = Num(upload_result.sent_mbps)
         /\ LastRow.upload_transfer_gb = Num(upload_result.sent_bytes.v \div BytesPerGB)
         /\ LastRow.upload_retransmits = Num(upload_result.retransmits.v)
         /\ LastRow.upload_intervals = Num(upload_result.intervals)
    /\ (pc = "summary" /\ upload_result.tag = "None" /\ download_result.tag = "dict") =>
         /\ LastRow.upload_mbps = Empty
         /\ LastRow.upload_transfer_gb = Empty
         /\ LastRow.upload_retransmits = Empty
         /\ LastRow.upload_intervals = Empty
         /\ LastRow.download_mbps = Num(download_result.received_mbps)
         /\ LastRow.download_transfer_gb =
                Num(download_result.received_bytes.v \div BytesPerGB)
         /\ LastRow.download_retransmits = Num(download_result.retransmits.v)
         /\ LastRow.download_intervals = Num(download_result.intervals)

\* C2's case: the record of a cycle whose download failed and whose upload
\* succeeded has just been appended.
C2_Witness ==
    /\ pc = "summary"
    /\ download_result.tag = "None"
    /\ upload_result.tag = "dict"
    /\ LastRow.test_number = Num(test_count)

\* C3: a cycle that has started runs to completion even when SIGINT arrives in
\* it: when the process has ended after an interrupt, every cycle that was
\* started has its record in the log.
C3_CycleRunsToCompletion ==
    (pc \in Terminal /\ frame # "none") => Rows = test_count

\* C4: SIGINT during the inter-cycle wait ends the process at once with status
\* 0: the wait is not finished, the final status line with the number of tests
\* is the last line of the detailed log, the CSV file is left as it was with
\* every row complete, and nothing is done after the exit.
C4_InterruptDuringWait ==
    [][/\ (pc = "wait" /\ frame' # frame) =>
            /\ pc' = "exited"
            /\ exit_code' = 0
            /\ clock' = clock
            /\ csv' = csv
            /\ \A i \in 1..Len(csv') : DOMAIN csv'[i] = Columns
            /\ test_count' = test_count
            /\ detailed_log' = Append(detailed_log, StoppedLine(test_count))
       /\ pc = "exited" => (pc' = "exited" /\ csv' = csv /\ test_count' = test_count)
      ]_vars

\* C4's case: the process has exited on a SIGINT that arrived during the wait.
C4_Witness ==
    /\ pc = "exited"
    /\ frame = "wait"
    /\ sleep_time > 0
    /\ Rows = test_count

\* C5: the start of a run never truncates a log file that exists, and two runs
\* never share a file: every file of the directory only ever grows at its end.
C5_NoLogClobbered ==
    [][\A f \in DOMAIN dir : IsPrefix(dir[f], dir'[f])]_vars

\* C6: only the interrupt ends the program: whenever the process has ended,
\* SIGINT was received.
C6_OnlyInterruptEnds ==
    pc \in Terminal => frame # "none"

\* C7: the CSV file is append-only within a run: the first row is the header
\* and no other row is, and every step leaves the file as it was or adds one
\* complete row at its end.
C7_AppendOnly ==
    [][/\ IsPrefix(csv, csv')
       /\ Len(csv') <= Len(csv) + 1
       /\ csv'[1] = Header
       /\ \A i \in 2..Len(csv') : csv'[i] # Header /\ DOMAIN csv'[i] = Columns
      ]_vars

\* C7's case: a record has been appended after the header.
C7_Witness == Len(csv) >= 2 /\ csv[1] = Header /\ pc = "loop"

\* C8, as claimed: every cycle takes at least two sub-test durations.
C8_ElapsedAtLeastTwoDurations ==
    BetweenCycles => elapsed >= 2 * test_duration

BothPopulated(row) == row.download_mbps # Empty /\ row.upload_mbps # Empty

\* C8, amended: every cycle takes at least the two fixed pauses; a cycle whose
\* two sub-tests both succeeded (iperf3 running for the duration it was given)
\* takes at least two sub-test durations on top of the pauses.
C8_ElapsedLowerBound ==
    BetweenCycles =>
        /\ elapsed >= FirstPause + SecondPause
        /\ BothPopulated(LastRow) =>
               elapsed >= 2 * test_duration + FirstPause + SecondPause

\* C8's case: a cycle whose sub-tests failed is over in less than two
\* sub-test durations.
C8_Witness ==
    /\ BetweenCycles
    /\ LastRow.download_mbps = Empty
    /\ LastRow.upload_mbps = Empty
    /\ elapsed < 2 * test_duration

\* C9: the wait is max(0, test_interval - elapsed), never negative; with no
\* interrupt the next cycle starts test_interval after the start of the one
\* before when that one took at most test_interval, and at its end otherwise.
C9_IntervalPaced ==
    [][/\ sleep_time' >= 0
       /\ (pc = "elapsed" /\ pc' # "exited") =>
              /\ elapsed' = clock - start_time
              /\ sleep_time' = IF elapsed' < test_interval
                               THEN test_interval - elapsed' ELSE 0
       /\ (pc = "loop" /\ pc' = "cycle" /\ test_count >= 1) =>
              start_time' = IF elapsed <= test_interval
                            THEN start_time + test_interval
                            ELSE start_time + elapsed
      ]_vars

\* C9's case: after a cycle shorter than the interval, the loop has begun its
\* next pass.
C9_Witness ==
    /\ pc = "cycle"
    /\ test_count >= 1
    /\ elapsed < test_interval
    /\ start_time >= test_interval

\* C10: the record's rtt_ms is empty only when the latency probe failed: when
\* the record of a cycle has just been written, its rtt_ms is empty exactly if
\* run_ping_test returned None.
C10_RttRecorded ==
    pc = "summary" => (LastRow.rtt_ms = Empty <=> rtt.tag = "None")

====
